---------------------------- MODULE Spec2Model ----------------------------
(***************************************************************************)
(* A model of src/Acts/get_acts.py: the TEI act extractor.                 *)
(*                                                                         *)
(* Strings are sequences of code points (integers).  A parsed document is  *)
(* a record [nsmap, nodes]: nsmap is the namespace map declared on the     *)
(* root element (a function from prefixes to URIs, the empty prefix ""     *)
(* standing for lxml's None key), and nodes is the sequence of elements in *)
(* document order, each with the index of its parent (0 for the root), its *)
(* namespace URI, local name, @type attribute, .text and .tail.            *)
(***************************************************************************)
EXTENDS Integers, Sequences, FiniteSets, TLC

VARIABLES
    pc,        \* position of the running function
    s,         \* text_norm: the argument
    t,         \* text_norm: the value returned by the first call
    u,         \* text_norm: the value returned by the call on t
    root,      \* the parsed document handed to tei_ns / extract_spoken_by_act
    ns,        \* the prefix map built by tei_ns
    divs,      \* extract_spoken_by_act: the units (node indices)
    k,         \* extract_spoken_by_act: number of units already looped over
    nodes,     \* extract_spoken_by_act: result of the primary query, last unit
    branch,    \* extract_spoken_by_act: branch of "if nodes" taken, last unit
    acts,      \* extract_spoken_by_act: the list "out" of act texts
    ret,       \* extract_spoken_by_act: the returned list
    seneca,    \* main: the filtered metadata list
    i,         \* main: number of corpus plays already processed
    fetched,   \* main: what fetch/open/parse produced, per processed document
    out,       \* main: the output accumulator
    problems,  \* main: the problem list
    written    \* main: content of the output file

vars == <<pc, s, t, u, root, ns, divs, k, nodes, branch, acts, ret,
          seneca, i, fetched, out, problems, written>>

normVars == <<s, t, u>>
treeVars == <<root, ns, divs, k, nodes, branch, acts, ret>>
mainVars == <<seneca, i, fetched, out, problems, written>>

-----------------------------------------------------------------------------
(* Bounds of the model.                                                    *)

MaxLen == 4      \* longest argument of text_norm
MaxNodes == 4    \* most elements of a document of the segmentation family
MaxInner == 3    \* most elements inside the unit of the dialogue family
MaxPlays == 2    \* most entries of the corpus metadata

-----------------------------------------------------------------------------
(* Strings.                                                                *)

\* str.isspace() of one code point: the characters str.split() splits on.
IsSpace(c) ==
    c \in ({9, 10, 11, 12, 13, 28, 29, 30, 31, 32, 133, 160, 5760}
           \cup (8192..8202) \cup {8232, 8233, 8239, 8287, 12288})

RECURSIVE Join(_, _)
\* sep.join(parts)
Join(sep, parts) ==
    IF parts = <<>> THEN <<>>
    ELSE IF Len(parts) = 1 THEN parts[1]
    ELSE parts[1] \o sep \o Join(sep, Tail(parts))

RECURSIVE SplitFrom(_, _, _)
\* s.split(): the maximal runs of non-whitespace characters of str, in order.
\* cur is the run being read; an empty run is never emitted.
SplitFrom(str, cur, n) ==
    IF n > Len(str)
    THEN IF cur = <<>> THEN <<>> ELSE <<cur>>
    ELSE IF IsSpace(str[n])
         THEN IF cur = <<>> THEN SplitFrom(str, <<>>, n + 1)
              ELSE <<cur>> \o SplitFrom(str, <<>>, n + 1)
         ELSE SplitFrom(str, Append(cur, str[n]), n + 1)

Split(str) == SplitFrom(str, <<>>, 1)

RECURSIVE SplitOnSpaceFrom(_, _, _)
\* A mutation of Split: s.split(" "), which keeps the empty runs.
SplitOnSpaceFrom(str, cur, n) ==
    IF n > Len(str) THEN <<cur>>
    ELSE IF str[n] = 32
         THEN <<cur>> \o SplitOnSpaceFrom(str, <<>>, n + 1)
         ELSE SplitOnSpaceFrom(str, Append(cur, str[n]), n + 1)

SplitOnSpace(str) == SplitOnSpaceFrom(str, <<>>, 1)

\* A mutation of text_norm: " ".join(s.split(" ")).
text_norm_on_space(str) == Join(<<32>>, SplitOnSpace(str))

text_norm(str) == Join(<<32>>, Split(str))

RECURSIVE LStrip(_)
LStrip(str) ==
    IF str # <<>> /\ IsSpace(Head(str)) THEN LStrip(Tail(str)) ELSE str

RECURSIVE RStrip(_)
RStrip(str) ==
    IF str # <<>> /\ IsSpace(str[Len(str)])
    THEN RStrip(SubSeq(str, 1, Len(str) - 1)) ELSE str

\* str.strip()
Strip(str) == RStrip(LStrip(str))

\* The characters of a string, as a set.
Chars(str) == {str[n] : n \in 1..Len(str)}

\* The ascending sequence of a finite set of integers.
RECURSIVE SortedSeq(_)
SortedSeq(S) ==
    IF S = {} THEN <<>>
    ELSE LET m == CHOOSE x \in S : \A y \in S : x <= y
         IN  <<m>> \o SortedSeq(S \ {m})

-----------------------------------------------------------------------------
(* Namespace maps: Python dicts as functions.                              *)

TEI_URI == "http://www.tei-c.org/ns/1.0"

\* lxml's None key of nsmap: the default (no-prefix) namespace.
NoPrefix == ""

DictPop(d, key) == [p \in (DOMAIN d) \ {key} |-> d[p]]

DictSet(d, key, v) ==
    [p \in (DOMAIN d) \cup {key} |-> IF p = key THEN v ELSE d[p]]

DictSetDefault(d, key, v) == IF key \in DOMAIN d THEN d ELSE DictSet(d, key, v)

\* A mutation of tei_ns: without a default namespace "tei" is always rebound
\* to the fixed URI (ns["tei"] = ... in place of ns.setdefault).
tei_ns_overwrite(r) ==
    LET ns0 == r.nsmap
    IN  IF NoPrefix \in DOMAIN ns0
        THEN DictSet(DictPop(ns0, NoPrefix), "tei", ns0[NoPrefix])
        ELSE DictSet(ns0, "tei", TEI_URI)

tei_ns(r) ==
    LET ns0 == r.nsmap
        ns1 == IF NoPrefix \in DOMAIN ns0
               THEN DictSet(DictPop(ns0, NoPrefix), "tei", ns0[NoPrefix])
               ELSE ns0
    IN  DictSetDefault(ns1, "tei", TEI_URI)

-----------------------------------------------------------------------------
(* The element tree.                                                       *)

\* parse_tei returned None: recovery produced no tree.
NoTree == [nsmap |-> <<>>, nodes |-> <<>>]

RECURSIVE IsAncestor(_, _, _)
\* a is a proper ancestor of n in the node sequence d.
IsAncestor(d, a, n) ==
    /\ n # 0
    /\ d[n].parent # 0
    /\ (d[n].parent = a \/ IsAncestor(d, a, d[n].parent))

\* The elements below a, in document order (XPath .//*).
Descendants(d, a) == {n \in 1..Len(d) : IsAncestor(d, a, n)}

\* The element children of a, in document order (iterchildren).
Children(d, a) == SortedSeq({n \in 1..Len(d) : d[n].parent = a})

\* The XPath name test tei:name under the prefix map m.
IsTei(d, m, n, name) == d[n].nsuri = m["tei"] /\ d[n].tag = name

RECURSIVE IterText(_, _)
RECURSIVE IterTextOfChildren(_, _)
\* "".join(n.itertext()): the element's text, then for each child its own
\* itertext followed by the child's tail; the element's own tail is not part.
IterText(d, n) == d[n].text \o IterTextOfChildren(d, Children(d, n))

IterTextOfChildren(d, cs) ==
    IF cs = <<>> THEN <<>>
    ELSE IterText(d, Head(cs)) \o d[Head(cs)].tail
         \o IterTextOfChildren(d, Tail(cs))

\* etree.QName(child).localname.lower()
Lower(tag) ==
    CASE tag = "STAGE" -> "stage"
      [] tag = "Speaker" -> "speaker"
      [] tag = "TEI" -> "tei"
      [] OTHER -> tag

\* A mutation of XPathDivs: the scene-typed divs are returned with the others.
XPathDivsAnyType(r, m, ty) ==
    SortedSeq({n \in Descendants(r.nodes, 1) :
                  IsTei(r.nodes, m, n, "div")
                  /\ r.nodes[n].type \in {ty, "scene"}})

\* root.xpath(".//tei:div[@type=ty]"): below the root, never the root itself.
XPathDivs(r, m, ty) ==
    SortedSeq({n \in Descendants(r.nodes, 1) :
                  IsTei(r.nodes, m, n, "div") /\ r.nodes[n].type = ty})

\* div.xpath(".//tei:sp")
XPathSp(d, m, div) ==
    SortedSeq({n \in Descendants(d, div) : IsTei(d, m, n, "sp")})

\* div.xpath(".//tei:sp//tei:l[not(ancestor::tei:stage)]")
PrimaryNodes(d, m, div) ==
    SortedSeq({n \in Descendants(d, div) :
        /\ IsTei(d, m, n, "l")
        /\ \E sp \in Descendants(d, div) :
               IsTei(d, m, sp, "sp") /\ IsAncestor(d, sp, n)
        /\ ~ \E a \in 1..Len(d) :
               IsTei(d, m, a, "stage") /\ IsAncestor(d, a, n)})

RECURSIVE NonBlankNorm(_, _)
\* The loop "t = text_norm(itertext); if t: pieces.append(t)" over elements.
NonBlankNorm(d, elems) ==
    IF elems = <<>> THEN <<>>
    ELSE LET piece == text_norm(IterText(d, Head(elems)))
         IN  (IF piece # <<>> THEN <<piece>> ELSE <<>>)
             \o NonBlankNorm(d, Tail(elems))

\* The children of one sp that the fallback keeps.
KeptChildren(d, sp) ==
    SelectSeq(Children(d, sp),
              LAMBDA c : Lower(d[c].tag) \notin {"stage", "speaker"})

RECURSIVE FallbackPieces(_, _)
\* The fallback loop over the sp elements of the unit.
FallbackPieces(d, sps) ==
    IF sps = <<>> THEN <<>>
    ELSE NonBlankNorm(d, KeptChildren(d, Head(sps)))
         \o FallbackPieces(d, Tail(sps))

\* A mutation of BranchOf: the fallback also runs when the primary query
\* matched lines but all of them were blank.
BranchOfWhenNoPieces(d, m, div) ==
    IF NonBlankNorm(d, PrimaryNodes(d, m, div)) # <<>>
    THEN "primary" ELSE "fallback"

\* The branch of "if nodes:" taken for a unit.
BranchOf(d, m, div) ==
    IF PrimaryNodes(d, m, div) # <<>> THEN "primary" ELSE "fallback"

\* The pieces of one unit.
Pieces(d, m, div) ==
    IF BranchOf(d, m, div) = "primary"
    THEN NonBlankNorm(d, PrimaryNodes(d, m, div))
    ELSE FallbackPieces(d, XPathSp(d, m, div))

\* "\n".join(pieces).strip()
ActText(d, m, div) == Strip(Join(<<10>>, Pieces(d, m, div)))

\* The units of the document: the acts if there are any, else the scenes.
Units(r, m) ==
    IF XPathDivs(r, m, "act") # <<>>
    THEN XPathDivs(r, m, "act") ELSE XPathDivs(r, m, "scene")

\* [a for a in out if a]
NonEmpty(texts) == SelectSeq(texts, LAMBDA a : a # <<>>)

\* extract_spoken_by_act(root) as a function of a parsed tree.
extract_spoken_by_act(r) ==
    LET m == tei_ns(r)
        us == Units(r, m)
    IN  NonEmpty([j \in 1..Len(us) |-> ActText(r.nodes, m, us[j])])

-----------------------------------------------------------------------------
(* The documents the model is run on.                                      *)

Kind(nsuri, tag, type, blank) ==
    [nsuri |-> nsuri, tag |-> tag, type |-> type, blank |-> blank]

KTei == Kind(TEI_URI, "TEI", "", FALSE)
KBody == Kind(TEI_URI, "body", "", FALSE)
KAct == Kind(TEI_URI, "div", "act", FALSE)
KScene == Kind(TEI_URI, "div", "scene", FALSE)
KActNoNs == Kind("", "div", "act", FALSE)
KSp == Kind(TEI_URI, "sp", "", FALSE)
KL == Kind(TEI_URI, "l", "", FALSE)
KLBlank == Kind(TEI_URI, "l", "", TRUE)
KStage == Kind(TEI_URI, "stage", "", FALSE)
KStageUpper == Kind(TEI_URI, "STAGE", "", FALSE)
KSpeaker == Kind(TEI_URI, "speaker", "", FALSE)
KP == Kind(TEI_URI, "p", "", FALSE)

\* The n-th element of a document: its text is one letter that names the
\* element, its tail a newline and another letter; a blank element holds
\* white space only.
MkNode(n, parent, kd) ==
    [parent |-> parent, nsuri |-> kd.nsuri, tag |-> kd.tag, type |-> kd.type,
     text |-> IF kd.blank THEN <<10, 32>> ELSE <<96 + n>>,
     tail |-> IF kd.blank \/ parent = 0 THEN <<>> ELSE <<10, 64 + n>>]

\* The parent vectors of the trees of n elements listed in document order:
\* every element but the first hangs under the element before it or under
\* one of that element's ancestors.  The first `spine` elements form a chain
\* and the others hang at or below element `spine`.
Shapes(n, spine) ==
    {pv \in [1..n -> 0..(n - 1)] :
        /\ pv[1] = 0
        /\ \A j \in 2..n :
              /\ 1 <= pv[j] /\ pv[j] < j
              /\ IF j <= spine THEN pv[j] = j - 1 ELSE pv[j] >= spine
              /\ \/ pv[j] = j - 1
                 \/ \E a \in 1..(j - 2) :
                       /\ a = pv[j]
                       /\ IsAncestor([x \in 1..n |-> [parent |-> pv[x]]], a, j - 1)}

RECURSIVE Build(_, _)
\* The tree of a list of <<parent, kind>> pairs, appended to d.
Build(d, pairs) ==
    IF pairs = <<>> THEN d
    ELSE Build(Append(d, MkNode(Len(d) + 1, Head(pairs)[1], Head(pairs)[2])),
               Tail(pairs))

DefaultNsmap == [p \in {NoPrefix} |-> TEI_URI]
PrefixedNsmap == [p \in {"tei"} |-> TEI_URI]

Doc(m, d) == [nsmap |-> m, nodes |-> d]

\* Segmentation family: any tree of wrappers and divs, the root included.
SegKinds == {KBody, KAct, KScene, KActNoNs}

IsSegDoc(r) ==
    \E n \in 1..MaxNodes : \E pv \in Shapes(n, 1) :
        \E kv \in [1..n -> SegKinds] :
            \E m \in {DefaultNsmap, PrefixedNsmap} :
                r = Doc(m, [j \in 1..n |-> MkNode(j, pv[j], kv[j])])

\* Dialogue family: one act under the root, any forest of speech markup in it.
InnerKinds == {KSp, KL, KLBlank, KStage, KStageUpper, KSpeaker, KP}

IsDialogueDoc(r) ==
    \E n \in 0..MaxInner : \E pv \in Shapes(n + 2, 2) :
        \E kv \in [1..n -> InnerKinds] :
            r = Doc(DefaultNsmap,
                    [j \in 1..(n + 2) |->
                        MkNode(j, pv[j], IF j = 1 THEN KTei
                                         ELSE IF j = 2 THEN KAct
                                         ELSE kv[j - 2])])

\* No act, no scene.
DocNoDivs == Doc(DefaultNsmap, Build(<<>>, <<<<0, KTei>>, <<1, KBody>>, <<2, KSp>>, <<3, KL>>>>))

\* Three acts: line-wrapped dialogue, a stage direction only, prose dialogue.
DocThree ==
    Doc(DefaultNsmap,
        Build(<<>>, <<<<0, KTei>>,
                      <<1, KAct>>, <<2, KSp>>, <<3, KSpeaker>>, <<3, KL>>,
                      <<1, KAct>>, <<6, KStage>>,
                      <<1, KAct>>, <<8, KSp>>, <<9, KSpeaker>>, <<9, KP>>>>))

\* One scene whose only line is blank, beside a prose paragraph.
DocBlank ==
    Doc(DefaultNsmap,
        Build(<<>>, <<<<0, KTei>>, <<1, KScene>>, <<2, KSp>>,
                      <<3, KLBlank>>, <<3, KP>>>>))

\* Two scenes and no act.
DocScenes ==
    Doc(DefaultNsmap,
        Build(<<>>, <<<<0, KTei>>, <<1, KScene>>, <<2, KSp>>, <<3, KL>>,
                      <<1, KScene>>, <<5, KSp>>, <<6, KL>>, <<6, KL>>>>))

Fixtures == {DocNoDivs, DocThree, DocBlank, DocScenes}

-----------------------------------------------------------------------------
(* extract_spoken_by_act, statement by statement.                          *)

InitIdle ==
    /\ s = <<>> /\ t = <<>> /\ u = <<>>
    /\ root = NoTree /\ ns = <<>> /\ divs = <<>> /\ k = 0
    /\ nodes = <<>> /\ branch = "none" /\ acts = <<>> /\ ret = <<>>
    /\ seneca = <<>> /\ i = 0 /\ fetched = <<>>
    /\ out = <<>> /\ problems = <<>> /\ written = <<>>

InitExtract ==
    /\ pc = "extract"
    /\ s = <<>> /\ t = <<>> /\ u = <<>>
    /\ \/ IsSegDoc(root)
       \/ IsDialogueDoc(root)
       \/ root \in Fixtures \cup {NoTree}
    /\ ns = <<>> /\ divs = <<>> /\ k = 0
    /\ nodes = <<>> /\ branch = "none" /\ acts = <<>> /\ ret = <<>>
    /\ seneca = <<>> /\ i = 0 /\ fetched = <<>>
    /\ out = <<>> /\ problems = <<>> /\ written = <<>>

\* A mutation of ExtractRaises: an empty result is raised as an error too.
ExtractRaisesWhenEmpty(r) == r = NoTree \/ extract_spoken_by_act(r) = <<>>

\* tei_ns(None) raises AttributeError: the call does not return.
ExtractRaises(r) == r = NoTree

Raise ==
    /\ pc = "extract"
    /\ ExtractRaises(root)
    /\ pc' = "raised"
    /\ UNCHANGED <<normVars, treeVars, mainVars>>

Segment ==
    /\ pc = "extract"
    /\ ~ ExtractRaises(root)
    /\ ns' = tei_ns(root)
    /\ divs' = Units(root, ns')
    /\ acts' = <<>>
    /\ k' = 0
    /\ pc' = "loop"
    /\ UNCHANGED <<normVars, root, nodes, branch, ret, mainVars>>

ExtractUnit ==
    /\ pc = "loop"
    /\ k < Len(divs)
    /\ nodes' = PrimaryNodes(root.nodes, ns, divs[k + 1])
    /\ branch' = BranchOf(root.nodes, ns, divs[k + 1])
    /\ acts' = Append(acts, ActText(root.nodes, ns, divs[k + 1]))
    /\ k' = k + 1
    /\ UNCHANGED <<pc, normVars, root, ns, divs, ret, mainVars>>

Return ==
    /\ pc = "loop"
    /\ k = Len(divs)
    /\ ret' = NonEmpty(acts)
    /\ pc' = "returned"
    /\ UNCHANGED <<normVars, root, ns, divs, k, nodes, branch, acts, mainVars>>

NextExtract == Raise \/ Segment \/ ExtractUnit \/ Return

SpecExtract == InitExtract /\ [][NextExtract]_vars

-----------------------------------------------------------------------------
(* main: the pipeline over the corpus plays and the local file.            *)

ecerinis_path == "C:\\Users\\dell\\Dropbox\\Nits\\Syracuse\\Ecerinis_DH\\TEI\\Ecerinis.xml"
ecerinis_title == "Ecerinis"
ecerinis_author == "Albertino Mussato"
ecerinis_slug == "mussato-ecerinis"

\* m.get(key, default) of a metadata object (a function on the keys it has).
Get(m, key, default) == IF key \in DOMAIN m THEN m[key] ELSE default

\* "seneca" in author.lower(), on the author strings of the model.
ContainsSeneca(author) == author \in {"Lucius Annaeus Seneca", "SENECA"}

\* title.strip(), on the title strings of the model.
StripTitle(title) == IF title \in {"", " "} THEN "" ELSE title

is_seneca(m) == ContainsSeneca(Get(m, "firstAuthor", ""))

has_title(m) == StripTitle(Get(m, "title", "")) # ""

\* The metadata objects of the model: each key present or missing.
MetaEntries ==
    {[key \in keys |-> v[key]] :
        keys \in SUBSET {"name", "firstAuthor", "title"},
        v \in [name : {"seneca-medea", "seneca-phaedra"},
               firstAuthor : {"Lucius Annaeus Seneca", "Plautus"},
               title : {"Medea", " "}]}

\* [m for m in plays_meta if is_seneca(m) and has_title(m) and m.get("name")]
FilterSeneca(plays_meta) ==
    SelectSeq(plays_meta,
              LAMBDA m : is_seneca(m) /\ has_title(m) /\ Get(m, "name", "") # "")

\* What fetch_text followed by parse_tei gives for one play.
RemoteOutcomes ==
    {[kind |-> "http404", doc |-> NoTree], [kind |-> "urlerror", doc |-> NoTree]}
    \cup {[kind |-> "parsed", doc |-> r] : r \in Fixtures \cup {NoTree}}

\* What open/read followed by parse_tei gives for the local file.
LocalOutcomes ==
    {[kind |-> "notfound", doc |-> NoTree], [kind |-> "unreadable", doc |-> NoTree]}
    \cup {[kind |-> "parsed", doc |-> r] : r \in Fixtures \cup {NoTree}}

\* The try block raises: the fetch or the read failed, or extraction did.
Fails(f) == f.kind # "parsed" \/ ExtractRaises(f.doc)

\* str(e) of the exception the try block raised.
ErrMsg(f) ==
    CASE f.kind = "http404" -> "[fetch_text] 404 Not Found"
      [] f.kind = "urlerror" -> "<urlopen error>"
      [] f.kind = "unreadable" -> "Permission denied"
      [] f.kind = "notfound" -> "No such file or directory"
      [] OTHER -> "'NoneType' object has no attribute 'nsmap'"

\* A mutation of Caught: only the HTTP failure is caught.
CaughtHttpOnly(f) == f.kind = "http404"

\* except (HTTPError, URLError, Exception): every failure of the model.
Caught(f) == TRUE

\* A mutation of Records: enumerate(acts) without start=1.
RecordsFromZero(slug, title, author, texts) ==
    [j \in 1..Len(texts) |->
        [id |-> <<slug, "_act", j - 1>>, play_slug |-> slug, title |-> title,
         author |-> author, act |-> j - 1, text |-> texts[j]]]

\* The records of one document: enumerate(acts, start=1).
Records(slug, title, author, texts) ==
    [j \in 1..Len(texts) |->
        [id |-> <<slug, "_act", j>>, play_slug |-> slug, title |-> title,
         author |-> author, act |-> j, text |-> texts[j]]]

\* A mutation of Extended: the items are inserted at the front.
Prepended(acc, items) == items \o acc

\* acc after "for x in items: acc.append(x)".
Extended(acc, items) == acc \o items

\* The entry of fetched for one processed document: what came in, and how
\* many records and problem entries its processing added.
Processed(f, slug, nrec, nprob) ==
    [kind |-> f.kind, doc |-> f.doc, slug |-> slug, nrec |-> nrec, nprob |-> nprob]

InitMain ==
    /\ pc = "main"
    /\ InitIdle

FetchMetadataFails ==
    /\ pc = "main"
    /\ pc' = "aborted"
    /\ UNCHANGED <<normVars, treeVars, mainVars>>

FetchMetadata ==
    /\ pc = "main"
    /\ \E n \in 0..MaxPlays : \E plays_meta \in [1..n -> MetaEntries] :
           seneca' = FilterSeneca(plays_meta)
    /\ out' = <<>>
    /\ problems' = <<>>
    /\ i' = 0
    /\ pc' = "plays"
    /\ UNCHANGED <<normVars, treeVars, fetched, written>>

ProcessPlay ==
    /\ pc = "plays"
    /\ i < Len(seneca)
    /\ \E f \in RemoteOutcomes :
         LET m == seneca[i + 1]
             play_slug == m["name"]
             title == Get(m, "title", "")
             author == Get(m, "firstAuthor", "")
         IN  IF Fails(f)
             THEN IF Caught(f)
                  THEN /\ problems' = Append(problems, <<play_slug, ": ", ErrMsg(f)>>)
                       /\ out' = out
                       /\ fetched' = Append(fetched, Processed(f, play_slug, 0, 1))
                       /\ i' = i + 1
                       /\ pc' = pc
                  ELSE /\ pc' = "aborted"
                       /\ fetched' = Append(fetched, Processed(f, play_slug, 0, 0))
                       /\ UNCHANGED <<out, problems, i>>
             ELSE /\ out' = Extended(out, Records(play_slug, title, author,
                                                  extract_spoken_by_act(f.doc)))
                  /\ problems' = problems
                  /\ fetched' = Append(fetched,
                                       Processed(f, play_slug, Len(out') - Len(out), 0))
                  /\ i' = i + 1
                  /\ pc' = pc
    /\ UNCHANGED <<normVars, treeVars, seneca, written>>

ProcessLocal ==
    /\ pc = "plays"
    /\ i = Len(seneca)
    /\ \E f \in LocalOutcomes :
         IF Fails(f)
         THEN /\ problems' =
                    Append(problems,
                           IF f.kind = "notfound"
                           THEN <<"Ecerinis TEI not found at ", ecerinis_path>>
                           ELSE <<"Ecerinis parse/extract failed: ", ErrMsg(f)>>)
              /\ out' = out
              /\ fetched' = Append(fetched, Processed(f, ecerinis_slug, 0, 1))
         ELSE /\ out' = Extended(out, Records(ecerinis_slug, ecerinis_title,
                                              ecerinis_author,
                                              extract_spoken_by_act(f.doc)))
              /\ problems' = problems
              /\ fetched' = Append(fetched,
                                   Processed(f, ecerinis_slug, Len(out') - Len(out), 0))
    /\ pc' = "write"
    /\ UNCHANGED <<normVars, treeVars, seneca, i, written>>

WriteOutput ==
    /\ pc = "write"
    /\ written' = out
    /\ pc' = "done"
    /\ UNCHANGED <<normVars, treeVars, seneca, i, fetched, out, problems>>

Next == FetchMetadataFails \/ FetchMetadata \/ ProcessPlay \/ ProcessLocal \/ WriteOutput

Spec == InitMain /\ [][Next]_vars

-----------------------------------------------------------------------------
(* text_norm and tei_ns on their own.                                      *)

NormAlphabet == {9, 10, 32, 160, 97, 98}

InitNorm ==
    /\ pc = "norm"
    /\ \E n \in 0..MaxLen : s \in [1..n -> NormAlphabet]
    /\ t = <<>> /\ u = <<>>
    /\ root = NoTree /\ ns = <<>> /\ divs = <<>> /\ k = 0
    /\ nodes = <<>> /\ branch = "none" /\ acts = <<>> /\ ret = <<>>
    /\ seneca = <<>> /\ i = 0 /\ fetched = <<>>
    /\ out = <<>> /\ problems = <<>> /\ written = <<>>

NormOnce ==
    /\ pc = "norm"
    /\ t' = text_norm(s)
    /\ pc' = "norm_again"
    /\ UNCHANGED <<s, u, treeVars, mainVars>>

NormAgain ==
    /\ pc = "norm_again"
    /\ u' = text_norm(t)
    /\ pc' = "normed"
    /\ UNCHANGED <<s, t, treeVars, mainVars>>

NextNorm == NormOnce \/ NormAgain

SpecNorm == InitNorm /\ [][NextNorm]_vars

NsPrefixes == {NoPrefix, "tei", "xi", "dracor"}
NsUris == {TEI_URI, "urn:a", "urn:b"}

InitNs ==
    /\ pc = "tei_ns"
    /\ s = <<>> /\ t = <<>> /\ u = <<>>
    /\ \E keys \in SUBSET NsPrefixes : \E m \in [keys -> NsUris] :
           root = Doc(m, <<MkNode(1, 0, KTei)>>)
    /\ ns = <<>> /\ divs = <<>> /\ k = 0
    /\ nodes = <<>> /\ branch = "none" /\ acts = <<>> /\ ret = <<>>
    /\ seneca = <<>> /\ i = 0 /\ fetched = <<>>
    /\ out = <<>> /\ problems = <<>> /\ written = <<>>

CallTeiNs ==
    /\ pc = "tei_ns"
    /\ ns' = tei_ns(root)
    /\ pc' = "tei_ns_done"
    /\ UNCHANGED <<normVars, root, divs, k, nodes, branch, acts, ret, mainVars>>

NextNs == CallTeiNs

SpecNs == InitNs /\ [][NextNs]_vars

-----------------------------------------------------------------------------
(* Vocabulary of the properties.                                           *)

SeqSet(q) == {q[x] : x \in 1..Len(q)}

Ascending(q) == \A x, y \in 1..Len(q) : x < y => q[x] < q[y]

IsPrefix(p, q) == Len(p) <= Len(q) /\ \A x \in 1..Len(p) : p[x] = q[x]

\* The characters of a string that are not white space.
Letters(str) == {c \in Chars(str) : c \notin {9, 10, 32, 160}}

\* extract_spoken_by_act has chosen its units.
Started == pc \in {"loop", "returned"}

\* The tei:div elements of a type found anywhere in the tree of r.
DivsInTree(r, ty) ==
    {n \in 1..Len(r.nodes) :
        r.nodes[n].tag = "div" /\ r.nodes[n].type = ty
        /\ r.nodes[n].nsuri = TEI_URI}

\* The same, the root element left out.
DivsBelowRoot(r, ty) == DivsInTree(r, ty) \ {1}

\* The letters of the text lying inside element e: its own text, and the
\* text and the tail of every element below it.
InsideLetters(d, e) ==
    Letters(d[e].text)
    \cup UNION {Letters(d[n].text) \cup Letters(d[n].tail) :
                   n \in Descendants(d, e)}

\* The tei elements of a given name inside unit div.
NamedInside(d, div, name) ==
    {n \in Descendants(d, div) : d[n].tag = name /\ d[n].nsuri = TEI_URI}

-----------------------------------------------------------------------------
(* C1: act precedence.                                                     *)

-----------------------------------------------------------------------------
(* C2: stage directions.                                                   *)

\* C2 as stated: no text lying inside a tei:stage element of a unit, at any
\* depth, appears in the act text of that unit.
C2_StageExcluded ==
    Started =>
        \A j \in 1..k :
            \A st \in NamedInside(root.nodes, divs[j], "stage") :
                InsideLetters(root.nodes, st) \cap Chars(acts[j]) = {}

-----------------------------------------------------------------------------
(* C6: speaker labels.                                                     *)

\* C6 as stated: no text contained in a tei:speaker element of a unit
\* appears in the act text of that unit.
C6_SpeakerExcluded ==
    Started =>
        \A j \in 1..k :
            \A sk \in NamedInside(root.nodes, divs[j], "speaker") :
                InsideLetters(root.nodes, sk) \cap Chars(acts[j]) = {}

-----------------------------------------------------------------------------
(* C3: the strategy is chosen unit by unit.                                *)

\* C3: for every unit looped over, the act text is that of the primary
\* strategy when the primary query matched any line element and that of the
\* fallback strategy when it matched none; the branch taken for the last
\* unit is the fallback exactly when its query result is empty; and a unit
\* whose matched lines are all blank has an empty act text.
C3_PerUnitChoice ==
    Started =>
        \A j \in 1..k :
            LET d == root.nodes
                prim == PrimaryNodes(d, ns, divs[j])
            IN  /\ prim # <<>> =>
                      acts[j] = Strip(Join(<<10>>, NonBlankNorm(d, prim)))
                /\ prim = <<>> =>
                      acts[j] = Strip(Join(<<10>>,
                                    FallbackPieces(d, XPathSp(d, ns, divs[j]))))
                /\ (prim # <<>> /\ \A n \in SeqSet(prim) :
                                       Letters(IterText(d, n)) = {}) =>
                      acts[j] = <<>>
                /\ j = k =>
                      /\ nodes = prim
                      /\ branch = "fallback" <=> nodes = <<>>
                      /\ branch = "primary" <=> nodes # <<>>

\* C3, witness: one document with a unit read by the primary strategy and a unit read by
\* the fallback, both with text.
C3_Witness ==
    /\ pc = "returned"
    /\ \E j1, j2 \in 1..k :
          /\ PrimaryNodes(root.nodes, ns, divs[j1]) # <<>>
          /\ acts[j1] # <<>>
          /\ PrimaryNodes(root.nodes, ns, divs[j2]) = <<>>
          /\ acts[j2] # <<>>

-----------------------------------------------------------------------------
(* Vocabulary of the properties of main.                                   *)

RECURSIVE RecordsBefore(_)
\* The number of records the documents before the j-th added.
RecordsBefore(j) ==
    IF j <= 1 THEN 0 ELSE RecordsBefore(j - 1) + fetched[j - 1].nrec

RECURSIVE ProblemsBefore(_)
\* The number of problem entries the documents before the j-th added.
ProblemsBefore(j) ==
    IF j <= 1 THEN 0 ELSE ProblemsBefore(j - 1) + fetched[j - 1].nprob

\* The records and the problem entries the j-th processed document added.
RecordsOf(j) ==
    SubSeq(out, RecordsBefore(j) + 1, RecordsBefore(j) + fetched[j].nrec)

ProblemsOf(j) ==
    SubSeq(problems, ProblemsBefore(j) + 1, ProblemsBefore(j) + fetched[j].nprob)

\* Every record and every problem entry belongs to a processed document.
Accounted ==
    /\ Len(out) = RecordsBefore(Len(fetched) + 1)
    /\ Len(problems) = ProblemsBefore(Len(fetched) + 1)

\* The j-th processed document is a corpus play (the local file comes last).
IsCorpusPlay(j) == j <= Len(seneca)

\* The act texts of the units of a parsed tree, empty ones included.
UnitTexts(r) ==
    LET m == tei_ns(r)
        us == Units(r, m)
    IN  [x \in 1..Len(us) |-> ActText(r.nodes, m, us[x])]

\* The positions of the non-empty texts of a list, ascending.
Retained(texts) == SortedSeq({x \in 1..Len(texts) : texts[x] # <<>>})

-----------------------------------------------------------------------------
(* C4: renumbering of the retained units.                                  *)

\* C4: a document that is processed without failure adds one record per
\* unit with a non-empty act text, in document order, numbered 1..k, with
\* id "{play_slug}_act{act}" and the text of that unit; no record has an
\* empty text.
C4_Renumbering ==
    /\ Accounted
    /\ \A j \in 1..Len(fetched) :
          ~ Fails(fetched[j]) =>
              LET texts == UnitTexts(fetched[j].doc)
                  kept == Retained(texts)
                  recs == RecordsOf(j)
              IN  /\ Len(recs) = Len(kept)
                  /\ \A x \in 1..Len(recs) :
                        /\ recs[x].act = x
                        /\ recs[x].play_slug = fetched[j].slug
                        /\ recs[x].id = <<fetched[j].slug, "_act", x>>
                        /\ recs[x].text = texts[kept[x]]
                        /\ recs[x].text # <<>>

\* C4, witness: three units of which the second is empty: two records, numbered 1 and 2,
\* the second holding the text of the third unit.
C4_Witness ==
    \E j \in 1..Len(fetched) :
        /\ ~ Fails(fetched[j])
        /\ LET texts == UnitTexts(fetched[j].doc)
           IN  /\ Len(texts) = 3
               /\ texts[2] = <<>>
               /\ Len(RecordsOf(j)) = 2
               /\ RecordsOf(j)[1].act = 1
               /\ RecordsOf(j)[2].act = 2
               /\ RecordsOf(j)[2].text = texts[3]

-----------------------------------------------------------------------------
(* C5: a failing document does not stop the run.                           *)

\* What C5 says whatever the wording of the problem entries: only the
\* metadata retrieval aborts the run; a failing document adds one problem
\* entry and no record, a succeeding one its records and no entry; the run
\* can always go on until the output is written; and the file written holds
\* the records of all the documents that succeeded.
C5_Isolation ==
    /\ Accounted
    /\ pc = "aborted" => fetched = <<>>
    /\ pc \in {"plays", "write"} => ENABLED Next
    /\ \A j \in 1..Len(fetched) :
          /\ Fails(fetched[j]) => fetched[j].nprob = 1 /\ fetched[j].nrec = 0
          /\ ~ Fails(fetched[j]) =>
                /\ fetched[j].nprob = 0
                /\ [x \in 1..Len(RecordsOf(j)) |-> RecordsOf(j)[x].text]
                      = extract_spoken_by_act(fetched[j].doc)
    /\ pc \in {"write", "done"} => Len(fetched) = Len(seneca) + 1
    /\ pc = "done" => written = out

\* C5 as stated: the entry of every failing document, the local file
\* included, holds the slug of the document and a message.
C5_EntryHoldsSlug ==
    /\ C5_Isolation
    /\ \A j \in 1..Len(fetched) :
          Fails(fetched[j]) =>
              LET e == ProblemsOf(j)[1]
              IN  /\ \E x \in 1..Len(e) : e[x] = fetched[j].slug
                  /\ \E x \in 1..Len(e) : e[x] = ErrMsg(fetched[j])

\* C5, amended: the entry of a failing corpus play holds its slug and the
\* message of the error; the entry of the failing local file holds the
\* word Ecerinis with the path of the file (file not found) or the message
\* of the error (any other failure), and not the slug.
C5_FailureIsolation ==
    /\ C5_Isolation
    /\ \A j \in 1..Len(fetched) :
          Fails(fetched[j]) =>
              LET e == ProblemsOf(j)[1]
              IN  IF IsCorpusPlay(j)
                  THEN e = <<seneca[j]["name"], ": ", ErrMsg(fetched[j])>>
                  ELSE /\ fetched[j].kind = "notfound" =>
                             e = <<"Ecerinis TEI not found at ", ecerinis_path>>
                       /\ fetched[j].kind # "notfound" =>
                             e = <<"Ecerinis parse/extract failed: ",
                                   ErrMsg(fetched[j])>>
                       /\ \A x \in 1..Len(e) : e[x] # ecerinis_slug

\* C5, witness: a 404 on the first play, a network error on the second, the local file
\* read and extracted: the file is written with the local file's records.
C5_Witness ==
    /\ pc = "done"
    /\ Len(fetched) = 3
    /\ fetched[1].kind = "http404"
    /\ fetched[2].kind = "urlerror"
    /\ ~ Fails(fetched[3])
    /\ fetched[3].nrec > 0
    /\ Len(problems) = 2
    /\ written = RecordsOf(3)

-----------------------------------------------------------------------------
(* C7: an empty segmentation is not a failure.                             *)

\* C7: a parsed document with no act-typed and no scene-typed div, and a
\* parsed document all of whose units have an empty act text, make
\* extract_spoken_by_act return the empty list, add no record and add no
\* problem entry.
C7_EmptyIsNoFailure ==
    /\ Accounted
    /\ \A j \in 1..Len(fetched) :
          LET r == fetched[j].doc
              texts == UnitTexts(r)
          IN  (/\ fetched[j].kind = "parsed"
               /\ r # NoTree
               /\ \/ DivsInTree(r, "act") \cup DivsInTree(r, "scene") = {}
                  \/ \A x \in 1..Len(texts) : texts[x] = <<>>)
              => /\ extract_spoken_by_act(r) = <<>>
                 /\ fetched[j].nrec = 0
                 /\ fetched[j].nprob = 0

\* C7, witness: both cases in one run: a play without divs and a local file whose only
\* unit yields no fragment, and the output is written without a problem.
C7_Witness ==
    /\ pc = "done"
    /\ problems = <<>>
    /\ \E j \in 1..Len(fetched) :
          /\ fetched[j].kind = "parsed" /\ fetched[j].doc # NoTree
          /\ DivsInTree(fetched[j].doc, "act")
                \cup DivsInTree(fetched[j].doc, "scene") = {}
    /\ \E j \in 1..Len(fetched) :
          /\ fetched[j].kind = "parsed" /\ fetched[j].doc # NoTree
          /\ LET texts == UnitTexts(fetched[j].doc)
             IN  Len(texts) > 0 /\ \A x \in 1..Len(texts) : texts[x] = <<>>

-----------------------------------------------------------------------------
(* C10: the accumulators.                                                  *)

\* C10 as stated: after the run every document has either records and no
\* problem entry, or exactly one problem entry and no record.
C10_RecordsOrEntry ==
    pc = "done" =>
        \A j \in 1..Len(fetched) :
            \/ fetched[j].nrec > 0 /\ fetched[j].nprob = 0
            \/ fetched[j].nprob = 1 /\ fetched[j].nrec = 0

\* The state part of C10, amended: every document has either no problem
\* entry (and its records, of which there may be none), or exactly one
\* problem entry and no record; the records stand grouped by document, the
\* corpus plays in metadata order and the local document last.
C10_Grouped ==
    /\ Accounted
    /\ \A j \in 1..Len(fetched) :
          /\ \/ fetched[j].nprob = 0
             \/ fetched[j].nprob = 1 /\ fetched[j].nrec = 0
          /\ \A x \in 1..Len(RecordsOf(j)) :
                RecordsOf(j)[x].play_slug =
                    IF IsCorpusPlay(j) THEN seneca[j]["name"] ELSE ecerinis_slug

\* C10, amended: C10_Grouped holds throughout, and both accumulators are
\* append-only: no step removes, reorders or changes what they hold.
C10_AtomicAppendOnly ==
    /\ []C10_Grouped
    /\ [][IsPrefix(out, out') /\ IsPrefix(problems, problems')]_vars

\* C10, witness: records of the first play, a failure of the second, records of the local
\* file, all in the output in that order.
C10_Witness ==
    /\ pc = "done"
    /\ Len(fetched) = 3
    /\ fetched[1].nrec > 0 /\ fetched[1].nprob = 0
    /\ fetched[2].nrec = 0 /\ fetched[2].nprob = 1
    /\ fetched[3].nrec > 0 /\ fetched[3].nprob = 0
    /\ out = RecordsOf(1) \o RecordsOf(3)

-----------------------------------------------------------------------------
(* C8: tei_ns.                                                             *)

\* What C8 says of every case but the missing default namespace: "tei" is
\* bound; a declared default namespace becomes the binding of "tei" and the
\* None key is gone; every other declared prefix keeps its URI.
C8_Common ==
    pc = "tei_ns_done" =>
        LET declared == root.nsmap
        IN  /\ "tei" \in DOMAIN ns
            /\ NoPrefix \notin DOMAIN ns
            /\ NoPrefix \in DOMAIN declared => ns["tei"] = declared[NoPrefix]
            /\ DOMAIN ns = ((DOMAIN declared) \ {NoPrefix}) \cup {"tei"}
            /\ \A p \in (DOMAIN declared) \ {NoPrefix, "tei"} :
                  ns[p] = declared[p]

\* C8 as stated: without a default namespace "tei" is bound to the fixed
\* URI, also when the root declares a prefix tei for another URI.
C8_FixedUriWithoutDefault ==
    /\ C8_Common
    /\ pc = "tei_ns_done" =>
          (NoPrefix \notin DOMAIN root.nsmap => ns["tei"] = TEI_URI)

\* C8, amended: without a default namespace "tei" keeps the URI the root
\* declares for the prefix tei, and is bound to the fixed URI only when the
\* root declares no prefix tei either; the root's nsmap is never changed.
C8_TeiBinding ==
    /\ [](/\ C8_Common
          /\ pc = "tei_ns_done" =>
                LET declared == root.nsmap
                IN  NoPrefix \notin DOMAIN declared =>
                       ns["tei"] = IF "tei" \in DOMAIN declared
                                   THEN declared["tei"] ELSE TEI_URI)
    /\ [][root' = root]_vars

\* C8, witness: no default namespace, and a prefix tei declared for another URI.
C8_Witness ==
    /\ pc = "tei_ns_done"
    /\ NoPrefix \notin DOMAIN root.nsmap
    /\ "tei" \in DOMAIN root.nsmap
    /\ root.nsmap["tei"] = "urn:a"
    /\ ns["tei"] = "urn:a"

-----------------------------------------------------------------------------
(* C9: text_norm.                                                          *)

\* C9: text_norm(text_norm(s)) = text_norm(s), and text_norm(s) neither
\* starts nor ends with white space and holds no white space but single
\* ASCII spaces between its words.
C9_Idempotent ==
    /\ pc = "normed" => u = t
    /\ pc \in {"norm_again", "normed"} =>
          /\ \A x \in 1..Len(t) : t[x] \notin {9, 10, 160}
          /\ t # <<>> => t[1] # 32 /\ t[Len(t)] # 32
          /\ \A x \in 1..(Len(t) - 1) : ~ (t[x] = 32 /\ t[x + 1] = 32)
          /\ Letters(t) = Letters(s)

\* C9, witness: an argument with leading white space, a run of two white-space
\* characters between words, and a normal form that differs from it.
C9_Witness ==
    /\ pc = "normed"
    /\ Len(s) >= 4
    /\ s[1] \in {9, 10, 32, 160}
    /\ \E x \in 2..(Len(s) - 2) :
          /\ s[x] \in {97, 98}
          /\ s[x + 1] \in {9, 10, 32, 160}
          /\ s[x + 2] \in {9, 10, 32, 160}
    /\ t # s
    /\ u = t

=============================================================================
